---- MODULE Spec2Model ----
(***************************************************************************)
(* LabelNation (src/OLD/labelnation.py): the label layout and document     *)
(* emission loop of make_labels, as a state machine.                       *)
(*                                                                         *)
(* A text line is a sequence of one-character strings WITHOUT its trailing *)
(* newline; a raw line read from a file is never the empty Python string,  *)
(* so "end of file" is carried by the eof field of `line`.  A CSV row is a *)
(* sequence of fields, each field a sequence of characters.                *)
(* The output document is the sequence `output` of events: the prologue,   *)
(* page headers, label blocks and page terminators, in the order written.  *)
(***************************************************************************)
EXTENDS Integers, Sequences, FiniteSets, TLC

(***************************************************************************)
(* Bounds of the model.                                                    *)
(***************************************************************************)
MaxLines == 3
MaxRows == 2
MaxH == 2
MaxV == 2
MaxLead == 1
MaxMin == 2

(***************************************************************************)
(* Input alphabets.                                                        *)
(***************************************************************************)
DelimText == <<"X">>
TextLine == <<"a", "(", "\\", ")">>
LineVals == { DelimText, <<"X", " ">>, TextLine }
\* Inputs with blank lines, and with several labels of different lines.
ExtraInputs ==
  { << <<>> >>,
    << <<>>, DelimText >>,
    << TextLine, <<>>, DelimText >>,
    << TextLine, DelimText, <<"b">>, DelimText >>,
    << <<"b">>, TextLine, DelimText, <<"b">>, DelimText >> }
\* The inputs of the documented examples: one address block, and three
\* delimited labels.
ScenarioInputs ==
  { << <<"a">>, <<"b">>, <<"c">> >>,
    << <<"a">>, DelimText, <<"b">>, DelimText, <<"c">>, DelimText >> }
ScenarioRows == { << << <<"a">>, <<"b">> >> >> }
RowVals == { <<>>, << <<"a">> >>, << <<"(", "b">>, <<"a">> >> }
FontSizes == {12}
NoDelimiter == [set |-> FALSE, val |-> <<>>]
DelimiterVals == { NoDelimiter, [set |-> TRUE, val |-> DelimText] }

RECURSIVE SeqsUpTo(_, _)
SeqsUpTo(S, n) ==
  IF n = 0 THEN { <<>> }
  ELSE LET shorter == SeqsUpTo(S, n - 1)
       IN  shorter \cup { Append(s, e) : s \in shorter, e \in S }

VARIABLES
  input_type, delimiter, infile, spec, leading_spaces, min_label_lines,
  pc, pos, line, label_lines, code_accum, page_number, x, y,
  iterate_over_single_page, overlong_label_warning_already_issued,
  start_new_page, output, warnings,
  opts, other, mpc, exit_with_admonishment, printed

\* The state of main: the parsed command line, the SheetSpec last handed to
\* absorb, main's position, its error flag, and the lines of parameters
\* printed on standard output.  main's spec, input_type and leading_spaces are the
\* variables of the same names, which it hands to make_labels.
mainvars == <<opts, other, mpc, exit_with_admonishment, printed>>

config == <<input_type, delimiter, infile, spec, leading_spaces, min_label_lines>>
vars == <<input_type, delimiter, infile, spec, leading_spaces, min_label_lines,
          pc, pos, line, label_lines, code_accum, page_number, x, y,
          iterate_over_single_page, overlong_label_warning_already_issued,
          start_new_page, output, warnings,
          opts, other, mpc, exit_with_admonishment, printed>>

(***************************************************************************)
(* Strings.                                                                *)
(***************************************************************************)
IsSpace(c) == c \in {" ", "\t", "\n", "\r"}

\* str.rstrip(): drop every trailing whitespace character.
RECURSIVE RStrip(_)
RStrip(s) ==
  IF s = <<>> THEN <<>>
  ELSE IF IsSpace(s[Len(s)]) THEN RStrip(SubSeq(s, 1, Len(s) - 1))
  ELSE s

\* The three chained str.replace calls: a backslash is put before every
\* backslash, then before every "(", then before every ")".
RECURSIVE ReplaceChar(_, _, _)
ReplaceChar(s, c, r) ==
  IF s = <<>> THEN <<>>
  ELSE (IF Head(s) = c THEN r ELSE <<Head(s)>>) \o ReplaceChar(Tail(s), c, r)

\* Mutant: the parentheses are escaped before the backslashes.
Escape_ParensFirst(s) ==
  ReplaceChar(ReplaceChar(ReplaceChar(s, "(", <<"\\", "(">>),
                          ")", <<"\\", ")">>),
              "\\", <<"\\", "\\">>)

Escape(s) ==
  ReplaceChar(ReplaceChar(ReplaceChar(s, "\\", <<"\\", "\\">>),
                          "(", <<"\\", "(">>),
              ")", <<"\\", ")">>)

\* " " * n
Spaces(n) == [i \in 1..n |-> " "]

\* [''] * n
Blanks(n) == [i \in 1..n |-> <<>>]

(***************************************************************************)
(* Output events and drawing instructions.                                 *)
(***************************************************************************)
\* (px, py) is the point a moveto names; it is (0, 0) for the others.
Instr(op, arg, text) ==
  [op |-> op, arg |-> arg, text |-> text, px |-> 0, py |-> 0]
MoveTo(px, py) ==
  [op |-> "moveto", arg |-> 0, text |-> <<>>, px |-> px, py |-> py]
\* Lengths are held in hundredths of a PostScript point (11.25 is 1125); a
\* length the arithmetic of the program makes finer is a fraction num / den
\* of hundredths.  A number written to the document is held in millionths
\* of a point, the six decimals of "%f".
\* (tx, ty) is the translation an event writes.
Rat(num, den) == [num |-> num, den |-> den]
RatSub(a, b) == Rat(a.num * b.den - b.num * a.den, a.den * b.den)
RatTimes(k, a) == Rat(k * a.num, a.den)
Event(ev, page, cx, cy, tx, ty, code) ==
  [ev |-> ev, page |-> page, x |-> cx, y |-> cy, tx |-> tx, ty |-> ty,
   code |-> code]

\* "%d" of a non-negative float: the fraction is dropped.
FormatD(v) == (v \div 100) * 1000000

\* "%f" of a non-negative float: rounded to six decimals.
FormatF(r) ==
  LET whole == r.num \div r.den
      rest == r.num % r.den
  IN  whole * 10000 + (2 * rest * 10000 + r.den) \div (2 * r.den)

PrologueEvent == Event("prologue", 0, 0, 0, 0, 0, <<>>)
\* Mutant: the two margins are written in the other order.
HeaderEvent_MarginsSwapped(page, s) ==
  Event("header", page, 0, 0,
        FormatF(Rat(s.bottom_margin, 1)), FormatF(Rat(s.left_margin, 1)),
        <<>>)

\* "%f %f translate" with the left and bottom margins.
HeaderEvent(page, s) ==
  Event("header", page, 0, 0,
        FormatF(Rat(s.left_margin, 1)), FormatF(Rat(s.bottom_margin, 1)),
        <<>>)
\* this_x_step = x * (label_width + horiz_space), this_y_step likewise,
\* written by "%d %d".
BlockEvent(page, cx, cy, s, code) ==
  Event("block", page, cx, cy,
        FormatD(cx * (s.label_width + s.horiz_space)),
        FormatD(cy * (s.label_height + s.vert_space)),
        code)
ShowpageEvent == Event("showpage", 0, 0, 0, 0, 0, <<>>)
FinalShowpageEvent == Event("final_showpage", 0, 0, 0, 0, 0, <<>>)

(***************************************************************************)
(* Pieces of make_labels.                                                  *)
(***************************************************************************)
\* Mutant: the column found by dividing by the number of columns.
InitX_ByColumns(s) == (s.first_label - 1) \div s.horiz_num_labels

\* x = int((spec.first_label - 1) / spec.vert_num_labels); the grid
\* dimensions are floats (built-in types and parameter files both store
\* floats), so this is a true division truncated by int().
InitX(s) == (s.first_label - 1) \div s.vert_num_labels

\* y = int((spec.first_label - 1) % spec.vert_num_labels)
InitY(s) == (s.first_label - 1) % s.vert_num_labels

\* input.readline(): the next line, or the empty string at end of file.
ReadLine(f, p) ==
  IF p < Len(f) THEN [eof |-> FALSE, val |-> f[p + 1]]
  ELSE [eof |-> TRUE, val |-> <<>>]

\* Truth value of `line` in "while line or ...": a raw text line still holds
\* its newline, so only end of file is false; a CSV row is a list, false
\* when it has no field.
Truthy(it, l) == IF it = "csv" THEN Len(l.val) > 0 ELSE ~l.eof

LoopCond(it, l, iter) == Truthy(it, l) \/ iter

\* line = line.rstrip(), done only for text input outside replication.
Stripped(it, l, iter) ==
  IF ~iter /\ it # "csv" THEN RStrip(l.val) ELSE l.val

\* The condition that sends an iteration to the label-printing branch.
EmitCond(it, d, ln, iter) ==
  \/ it = "csv"
  \/ (d.set /\ ln = d.val)
  \/ iter

\* Mutant: a short label is left as it is.
PadLines_None(lines, minl) == lines

\* Pad a label with blank lines up to min_label_lines.
PadLines(lines, minl) ==
  IF Len(lines) < minl THEN lines \o Blanks(minl - Len(lines)) ELSE lines

\* label_lines = [" " * leading_spaces + line for line in label_lines]
LeftPad(lines, n) == [i \in 1..Len(lines) |-> Spaces(n) \o lines[i]]

\* Mutant: a label exactly at the threshold is not unusually long.
Overlong_Strict(n, s) == n * s.vert_num_labels > 160

\* num_lines >= (160 / spec.vert_num_labels), a float division.
Overlong(n, s) == n * s.vert_num_labels >= 160

\* A scale that grows with the line count instead of shrinking.
FontSize_Growing(s, n) == (s.font_size * (n + 6)) \div 10

\* fontsize = font_size / (1.0 + ((num_lines - 4.0) / 10.0)), written with
\* %d, which truncates: 10 * font_size / (num_lines + 6).
FontSize(s, n) == (10 * s.font_size) \div (n + 6)

\* inner_margin = 1, and text_margin = inner_margin + 2.0.
inner_margin == 1
TextMargin == Rat((inner_margin + 2) * 100, 1)

\* upmost_line_start = label_height / (num_lines + 1.0) * float(num_lines)
UpmostLineStart(s, n) == Rat(s.label_height * n, n + 1)

\* Mutant: the lines are spaced as the first line is placed.
DistanceDown_AsUpmost(s, n) == Rat(s.label_height, n + 1)

\* distance_down = label_height / (num_lines + 2.0)
DistanceDown(s, n) == Rat(s.label_height, n + 2)

\* this_line = upmost_line_start - (label_line * distance_down), for the
\* label_line-th line of a label of n lines, counted from 0.
ThisLine(s, n, label_line) ==
  RatSub(UpmostLineStart(s, n), RatTimes(label_line, DistanceDown(s, n)))

\* The drawing instructions appended to code_accum for one text label:
\* "%f %f moveto" and "(...) show" for each line from the i-th on.
RECURSIVE ShowLines(_, _, _)
ShowLines(lines, s, i) ==
  IF i > Len(lines) THEN <<>>
  ELSE << MoveTo(FormatF(TextMargin),
                 FormatF(ThisLine(s, Len(lines), i - 1))),
          Instr("show", i - 1, lines[i]) >>
       \o ShowLines(lines, s, i + 1)

RenderText(lines, s) ==
  << Instr("newpath", 0, <<>>), Instr("setfont", FontSize(s, Len(lines)), <<>>) >>
  \o ShowLines(lines, s, 1)
  \o << Instr("stroke", 0, <<>>) >>

\* Mutant: row-major traversal (x fastest, then y, then page).
AdvanceCursor_RowMajor(cx, cy, page, s) ==
  LET x1 == cx + 1
      rowFull == x1 >= s.horiz_num_labels
      x2 == IF rowFull THEN 0 ELSE x1
      y1 == IF rowFull THEN cy + 1 ELSE cy
      pageFull == y1 >= s.vert_num_labels
  IN  [x |-> x2,
       y |-> IF pageFull THEN 0 ELSE y1,
       page |-> IF pageFull THEN page + 1 ELSE page,
       wrapped |-> pageFull]

\* Mutant: the page boundary is crossed without being signalled.
AdvanceCursor_NoPageSignal(cx, cy, page, s) ==
  LET y1 == cy + 1
      colFull == y1 >= s.vert_num_labels
      x1 == IF colFull THEN cx + 1 ELSE cx
      pageFull == x1 >= s.horiz_num_labels
  IN  [x |-> IF pageFull THEN 0 ELSE x1,
       y |-> IF colFull THEN 0 ELSE y1,
       page |-> IF pageFull THEN page + 1 ELSE page,
       wrapped |-> FALSE]

\* Mutant: a full column is not left for the next one.
AdvanceCursor_NoColumnStep(cx, cy, page, s) ==
  LET y1 == cy + 1
      colFull == y1 >= s.vert_num_labels
  IN  [x |-> cx,
       y |-> IF colFull THEN 0 ELSE y1,
       page |-> page,
       wrapped |-> FALSE]

\* Mutant: the column is left one label too late.
AdvanceCursor_LateWrap(cx, cy, page, s) ==
  LET y1 == cy + 1
      colFull == y1 > s.vert_num_labels
      y2 == IF colFull THEN 0 ELSE y1
      x1 == IF colFull THEN cx + 1 ELSE cx
      pageFull == x1 >= s.horiz_num_labels
  IN  [x |-> IF pageFull THEN 0 ELSE x1,
       y |-> y2,
       page |-> IF pageFull THEN page + 1 ELSE page,
       wrapped |-> pageFull]

\* Increment, and maybe cross a column or page boundary.
AdvanceCursor(cx, cy, page, s) ==
  LET y1 == cy + 1
      colFull == y1 >= s.vert_num_labels
      y2 == IF colFull THEN 0 ELSE y1
      x1 == IF colFull THEN cx + 1 ELSE cx
      pageFull == x1 >= s.horiz_num_labels
  IN  [x |-> IF pageFull THEN 0 ELSE x1,
       y |-> y2,
       page |-> IF pageFull THEN page + 1 ELSE page,
       wrapped |-> pageFull]

\* Mutant: label_lines is never emptied.
ResetLabelLines_Never(it, d, lines) == lines

\* "Reset everyone": label_lines is emptied only with a delimiter or in CSV.
ResetLabelLines(it, d, lines) == IF d.set \/ it = "csv" THEN <<>> ELSE lines

\* Mutant: the code of a printed label is kept for the next one.
ResetCodeAccum_Never(code) == code

\* code_accum = '' after every printed label.
ResetCodeAccum(code) == <<>>

\* Mutant: replication does not stop when the cursor is back at (0,0).
KeepIterating_NoWrapStop(it, l, d, cx, cy, s, iter) ==
  /\ it # "csv"
  /\ l.eof
  /\ ~d.set
  /\ ~(cy >= s.vert_num_labels)
  /\ ~(cx >= s.horiz_num_labels)

\* Mutant: the flag is tested the wrong way round in the stop condition.
KeepIterating_FlagInverted(it, l, d, cx, cy, s, iter) ==
  /\ it # "csv"
  /\ l.eof
  /\ ~d.set
  /\ ~(cy >= s.vert_num_labels)
  /\ ~(cx >= s.horiz_num_labels)
  /\ ~(~iter /\ cx = 0 /\ cy = 0)

\* Mutant: replication also starts when a delimiter is configured.
KeepIterating_IgnoreDelimiter(it, l, d, cx, cy, s, iter) ==
  /\ it # "csv"
  /\ l.eof
  /\ ~(cy >= s.vert_num_labels)
  /\ ~(cx >= s.horiz_num_labels)
  /\ ~(iter /\ cx = 0 /\ cy = 0)

\* The guard after the read at the end of the loop body.
KeepIterating(it, l, d, cx, cy, s, iter) ==
  /\ it # "csv"
  /\ l.eof
  /\ ~d.set
  /\ ~(cy >= s.vert_num_labels)
  /\ ~(cx >= s.horiz_num_labels)
  /\ ~(iter /\ cx = 0 /\ cy = 0)

\* Mutant: the closing showpage is always written.
NeedsFinalShowpage_Always(cx, cy) == TRUE

\* if not (x == 0 and y == 0): write the closing showpage.
NeedsFinalShowpage(cx, cy) == ~(cx = 0 /\ cy = 0)

(***************************************************************************)
(* SheetSpec and the pieces of main.                                       *)
(***************************************************************************)
\* Python's None, for a number that is not set.
NoneVal == -1
\* A string option that was not given.
NoName == ""
default_first_label == 1
default_font_name == "Times-Roman"
default_font_size == 12

GeometryFields ==
  {"left_margin", "bottom_margin", "label_width", "label_height",
   "horiz_space", "vert_space", "horiz_num_labels", "vert_num_labels"}

\* SheetSpec(): every geometry field None, the three others at their
\* class defaults.
DefaultSheetSpec ==
  [left_margin |-> NoneVal, bottom_margin |-> NoneVal,
   label_width |-> NoneVal, label_height |-> NoneVal,
   horiz_space |-> NoneVal, vert_space |-> NoneVal,
   horiz_num_labels |-> NoneVal, vert_num_labels |-> NoneVal,
   first_label |-> default_first_label,
   font_name |-> default_font_name,
   font_size |-> default_font_size]

\* Mutant: absorb takes every geometry field of the other spec.
Absorb_Overwrite(self, spec_) ==
  [self |->
     [f \in DOMAIN self |->
        IF f \in GeometryFields THEN spec_[f]
        ELSE IF f = "first_label" /\ self[f] = default_first_label THEN spec_[f]
        ELSE IF f = "font_name" /\ self[f] = default_font_name THEN spec_[f]
        ELSE IF f = "font_size" /\ self[f] = default_font_size THEN spec_[f]
        ELSE self[f]],
   other |-> spec_]

\* Mutant: absorb lets the other spec win wherever it is not at its default.
Absorb_OtherWins(self, spec_) ==
  [self |->
     [f \in DOMAIN self |->
        IF f \in GeometryFields
        THEN (IF spec_[f] # NoneVal THEN spec_[f] ELSE self[f])
        ELSE IF spec_[f] # DefaultSheetSpec[f] THEN spec_[f]
        ELSE self[f]],
   other |-> spec_]

\* Mutant: absorb puts a first_label, font_name or font_size of self that is
\* not at its default back to the default.
Absorb_ResetToDefault(self, spec_) ==
  [self |->
     [f \in DOMAIN self |->
        IF f \in GeometryFields
        THEN (IF self[f] = NoneVal THEN spec_[f] ELSE self[f])
        ELSE IF self[f] = DefaultSheetSpec[f] THEN spec_[f]
        ELSE DefaultSheetSpec[f]],
   other |-> spec_]

\* SheetSpec.absorb: the two objects as the call leaves them.  A geometry
\* field of self is taken from spec when it is None; first_label, font_name
\* and font_size are taken when self still equals the class default.
Absorb(self, spec_) ==
  [self |->
     [f \in DOMAIN self |->
        IF f \in GeometryFields /\ self[f] = NoneVal THEN spec_[f]
        ELSE IF f = "first_label" /\ self[f] = default_first_label THEN spec_[f]
        ELSE IF f = "font_name" /\ self[f] = default_font_name THEN spec_[f]
        ELSE IF f = "font_size" /\ self[f] = default_font_size THEN spec_[f]
        ELSE self[f]],
   other |-> spec_]

\* Parameter files: the value each file gives to a key, NoneVal or NoName
\* for a key it does not hold.  Lengths in hundredths of a point.
NoParamFile ==
  [present |-> FALSE,
   left_margin |-> NoneVal, bottom_margin |-> NoneVal,
   label_width |-> NoneVal, label_height |-> NoneVal,
   horiz_space |-> NoneVal, vert_space |-> NoneVal,
   horiz_num_labels |-> NoneVal, vert_num_labels |-> NoneVal,
   font_name |-> NoName, font_size |-> NoneVal]
ParamFileCustom ==
  [present |-> TRUE,
   left_margin |-> 900, bottom_margin |-> 900,
   label_width |-> 20000, label_height |-> 10000,
   horiz_space |-> 0, vert_space |-> 0,
   horiz_num_labels |-> 2, vert_num_labels |-> 2,
   font_name |-> "Courier", font_size |-> 10]
ParamFileNoVertSpace ==
  [ParamFileCustom EXCEPT !.vert_space = NoneVal, !.font_name = NoName,
                          !.font_size = NoneVal]
ParamFileMarginsOnly ==
  [NoParamFile EXCEPT !.present = TRUE, !.left_margin = 900,
                      !.bottom_margin = 900,
                      !.font_name = default_font_name,
                      !.font_size = default_font_size]
ParamFiles ==
  {NoParamFile, ParamFileCustom, ParamFileNoVertSpace, ParamFileMarginsOnly}

\* parse_param_file: a fresh SheetSpec with the keys of the file set.
ParseParamFile(pf) ==
  [f \in DOMAIN DefaultSheetSpec |->
     IF f = "first_label" THEN DefaultSheetSpec[f]
     ELSE IF f = "font_name"
          THEN (IF pf[f] # NoName THEN pf[f] ELSE DefaultSheetSpec[f])
     ELSE IF pf[f] # NoneVal THEN pf[f]
     ELSE DefaultSheetSpec[f]]

\* A line of a parameter file or of the parameter dump: a key and a value,
\* the value a number (held in millionths) or, for the font name, a string.
ParamLine(key, num, str) == [key |-> key, num |-> num, str |-> str]

\* SheetSpec.__str__: ten lines, every number written with "%d".
StrSpec(s) ==
  << ParamLine(<<"L", "e", "f", "t", "M", "a", "r", "g", "i", "n", ":">>,
               FormatD(s.left_margin), NoName),
     ParamLine(<<"B", "o", "t", "t", "o", "m", "M", "a", "r", "g", "i", "n", ":">>,
               FormatD(s.bottom_margin), NoName),
     ParamLine(<<"L", "a", "b", "e", "l", "W", "i", "d", "t", "h", ":">>,
               FormatD(s.label_width), NoName),
     ParamLine(<<"L", "a", "b", "e", "l", "H", "e", "i", "g", "h", "t", ":">>,
               FormatD(s.label_height), NoName),
     ParamLine(<<"H", "o", "r", "i", "z", "S", "p", "a", "c", "e", ":">>,
               FormatD(s.horiz_space), NoName),
     ParamLine(<<"V", "e", "r", "t", "S", "p", "a", "c", "e", ":">>,
               FormatD(s.vert_space), NoName),
     ParamLine(<<"H", "o", "r", "i", "z", "N", "u", "m", "L", "a", "b", "e", "l", "s", ":">>,
               FormatD(s.horiz_num_labels), NoName),
     ParamLine(<<"V", "e", "r", "t", "N", "u", "m", "L", "a", "b", "e", "l", "s", ":">>,
               FormatD(s.vert_num_labels), NoName),
     ParamLine(<<"F", "o", "n", "t", "N", "a", "m", "e", ":">>,
               0, s.font_name),
     ParamLine(<<"F", "o", "n", "t", "S", "i", "z", "e", ":">>,
               FormatD(s.font_size * 100), NoName) >>

\* dedelimit_string: quotes, newlines, tabs and blanks are removed.
RECURSIVE DedelimitString(_)
DedelimitString(str) ==
  IF str = <<>> THEN <<>>
  ELSE (IF Head(str) \in {"\n", "\"", "'", "\t", " "} THEN <<>>
        ELSE <<Head(str)>>) \o DedelimitString(Tail(str))

\* str.lower(), on the capitals the keys are written with.
ToLower(c) ==
  CASE c = "B" -> "b" [] c = "F" -> "f" [] c = "H" -> "h" [] c = "L" -> "l"
    [] c = "M" -> "m" [] c = "N" -> "n" [] c = "S" -> "s" [] c = "V" -> "v"
    [] c = "W" -> "w" [] OTHER -> c

RECURSIVE DropChars(_, _)
DropChars(str, cs) ==
  IF str = <<>> THEN <<>>
  ELSE (IF Head(str) \in cs THEN <<>> ELSE <<Head(str)>>)
       \o DropChars(Tail(str), cs)

\* normalize_string: dedelimit, lower-case, drop "-", "_" and ".".
NormalizeString(str) ==
  LET d == DedelimitString(str)
  IN  DropChars([i \in 1..Len(d) |-> ToLower(d[i])], {"-", "_", "."})

\* The key of a line as parse_param_file looks it up: a trailing colon is
\* stripped, then the key is normalized.
KeyOfLine(l) ==
  NormalizeString(IF l.key # <<>> /\ l.key[Len(l.key)] = ":"
                  THEN SubSeq(l.key, 1, Len(l.key) - 1)
                  ELSE l.key)

\* The keys parse_param_file knows, by the field each one sets.
ParamKeys ==
  [left_margin |-> <<"l", "e", "f", "t", "m", "a", "r", "g", "i", "n">>,
   bottom_margin |-> <<"b", "o", "t", "t", "o", "m", "m", "a", "r", "g", "i", "n">>,
   label_width |-> <<"l", "a", "b", "e", "l", "w", "i", "d", "t", "h">>,
   label_height |-> <<"l", "a", "b", "e", "l", "h", "e", "i", "g", "h", "t">>,
   horiz_space |-> <<"h", "o", "r", "i", "z", "s", "p", "a", "c", "e">>,
   vert_space |-> <<"v", "e", "r", "t", "s", "p", "a", "c", "e">>,
   horiz_num_labels |-> <<"h", "o", "r", "i", "z", "n", "u", "m", "l", "a", "b", "e", "l", "s">>,
   vert_num_labels |-> <<"v", "e", "r", "t", "n", "u", "m", "l", "a", "b", "e", "l", "s">>,
   font_name |-> <<"f", "o", "n", "t", "n", "a", "m", "e">>,
   font_size |-> <<"f", "o", "n", "t", "s", "i", "z", "e">>]

\* float(val) of a written number, in hundredths.
ParseFloat(num) == num \div 10000

\* The loop of parse_param_file over the lines of a file: what the file
\* gives to each key, the last line of a key winning.
ReadParamLines(lines) ==
  [f \in DOMAIN NoParamFile |->
     IF f = "present" THEN TRUE
     ELSE LET at == {i \in 1..Len(lines) : KeyOfLine(lines[i]) = ParamKeys[f]}
              last == CHOOSE i \in at : \A j \in at : j <= i
          IN  IF at = {} THEN NoParamFile[f]
              ELSE IF f = "font_name" THEN lines[last].str
              ELSE IF f = "font_size" THEN ParseFloat(lines[last].num) \div 100
              ELSE ParseFloat(lines[last].num)]

\* sheetspec_for_type for two of the built-in types; first_label is left
\* at the class default.
KnownTypes == {"avery5167", "avery5168"}
SheetspecForType(t) ==
  IF t = "avery5167"
  THEN [DefaultSheetSpec EXCEPT
          !.left_margin = 1400, !.bottom_margin = 1700,
          !.label_width = 12600, !.label_height = 3600,
          !.horiz_space = 2250, !.vert_space = 0,
          !.horiz_num_labels = 4, !.vert_num_labels = 20,
          !.font_name = "Times-Roman", !.font_size = 7]
  ELSE [DefaultSheetSpec EXCEPT
          !.left_margin = 3100, !.bottom_margin = 3300,
          !.label_width = 25400, !.label_height = 36300,
          !.horiz_space = 3700, !.vert_space = 0,
          !.horiz_num_labels = 2, !.vert_num_labels = 2,
          !.font_name = "Arial", !.font_size = 33]

\* The option loop: --first-label, --font-name, --font-size, --left-margin
\* and --bottom-margin are stored in the spec main has just built.
SpecFromOptions(o) ==
  [DefaultSheetSpec EXCEPT
     !.first_label = IF o.first_label # NoneVal THEN o.first_label ELSE @,
     !.font_name = IF o.font_name # NoName THEN o.font_name ELSE @,
     !.font_size = IF o.font_size # NoneVal THEN o.font_size ELSE @,
     !.left_margin = IF o.left_margin # NoneVal THEN o.left_margin ELSE @,
     !.bottom_margin = IF o.bottom_margin # NoneVal THEN o.bottom_margin ELSE @]

\* The command lines main is run with.  first_label 5 fits the 80 labels of
\* avery5167 and not the 4 of avery5168; 81 fits neither.
FirstLabelOptions == {NoneVal, 0, 5, 81}
FontNameOptions == {NoName, default_font_name, "Helvetica"}
FontSizeOptions == {NoneVal, default_font_size, 14}
LeftMarginOptions == {NoneVal, 500}
TypeOptions == {NoName, "bogus"} \cup KnownTypes
Options ==
  [show_parameters : BOOLEAN, type : TypeOptions, param_file : ParamFiles,
   line_input : BOOLEAN, code_input : BOOLEAN, csv_input : BOOLEAN,
   leading_spaces : {0, 1},
   first_label : FirstLabelOptions, font_name : FontNameOptions,
   font_size : FontSizeOptions, left_margin : LeftMarginOptions,
   bottom_margin : {NoneVal}]
\* main's variables before any option is read.
NoOptions ==
  [show_parameters |-> FALSE, type |-> NoName, param_file |-> NoParamFile,
   line_input |-> FALSE, code_input |-> FALSE, csv_input |-> FALSE,
   leading_spaces |-> 0,
   first_label |-> NoneVal, font_name |-> NoName,
   font_size |-> NoneVal, left_margin |-> NoneVal,
   bottom_margin |-> NoneVal]

\* The mode checks of lines 1240-1259.
ModeError(o) ==
  \/ o.code_input /\ o.line_input
  \/ o.csv_input /\ o.line_input
  \/ o.csv_input /\ o.code_input
  \/ o.leading_spaces # 0 /\ o.code_input
  \/ ~o.code_input /\ ~o.line_input /\ ~o.csv_input /\ ~o.show_parameters

\* input_type as lines 1261-1266 set it ("line" is the initial value).
InputTypeOf(o) ==
  IF o.line_input THEN "line"
  ELSE IF o.code_input THEN "code"
  ELSE IF o.csv_input THEN "csv"
  ELSE "line"

\* Mutant: vert_space is not among the required parameters.
MissingGeometry_NoVertSpace(s) ==
  \E f \in GeometryFields \ {"vert_space"} : s[f] = NoneVal

\* Lines 1276-1306: some required parameter is still None.
MissingGeometry(s) == \E f \in GeometryFields : s[f] = NoneVal

\* Mutant: the upper limit of first_label is off by one.
FirstLabelTooHigh_OffByOne(s) ==
  s.first_label - 1 > s.horiz_num_labels * s.vert_num_labels

\* Line 1316: first_label beyond the last label of the sheet.
FirstLabelTooHigh(s) ==
  s.first_label > s.horiz_num_labels * s.vert_num_labels

\* The product of line 1316 raises TypeError when a grid dimension is None;
\* it is evaluated only when first_label is at least 1.
FirstLabelCheckRaises(s) ==
  /\ ~(s.first_label < 1)
  /\ (s.horiz_num_labels = NoneVal \/ s.vert_num_labels = NoneVal)

(***************************************************************************)
(* Initial state: the arguments main hands to make_labels.                 *)
(***************************************************************************)
\* Label sizes and margins of two built-in types, in hundredths of a point.
Avery5160Geometry ==
  [left_margin |-> 1125, bottom_margin |-> 1600, label_width |-> 18000,
   label_height |-> 7200, horiz_space |-> 2000, vert_space |-> 0]
Avery5167Geometry ==
  [left_margin |-> 1400, bottom_margin |-> 1700, label_width |-> 12600,
   label_height |-> 3600, horiz_space |-> 2250, vert_space |-> 0]

\* Small grids, as a parameter file can describe them, with the label sizes
\* of Avery 5167.
SheetSpecs ==
  { [horiz_num_labels |-> h, vert_num_labels |-> v, first_label |-> f,
     font_size |-> fs] @@ Avery5167Geometry :
      h \in 1..MaxH, v \in 1..MaxV, f \in 1..(MaxH * MaxV), fs \in FontSizes }

\* The sheets of the documented examples: 30 per page (3 x 10) and 80 per
\* page (4 x 20), printing from the first label.
ScenarioSpecs ==
  { [horiz_num_labels |-> 3, vert_num_labels |-> 10, first_label |-> 1,
     font_size |-> 12] @@ Avery5160Geometry,
    [horiz_num_labels |-> 4, vert_num_labels |-> 20, first_label |-> 1,
     font_size |-> 7] @@ Avery5167Geometry }
\* min-label-lines of the documented CSV example, and one that makes every
\* label of the 20-row sheet unusually long.
ScenarioMinLines == {0, 4, 8}

Init ==
  /\ input_type \in {"line", "code", "csv"}
  /\ \/ /\ spec \in {s \in SheetSpecs :
                      s.first_label <= s.horiz_num_labels * s.vert_num_labels}
        /\ infile \in IF input_type = "csv" THEN SeqsUpTo(RowVals, MaxRows)
                      ELSE SeqsUpTo(LineVals, MaxLines) \cup ExtraInputs
        /\ min_label_lines \in {0, MaxMin}
     \/ /\ spec \in ScenarioSpecs
        /\ infile \in IF input_type = "csv" THEN ScenarioRows
                      ELSE ScenarioInputs
        /\ min_label_lines \in ScenarioMinLines
  /\ delimiter \in IF input_type = "csv" THEN {NoDelimiter} ELSE DelimiterVals
  /\ leading_spaces \in IF input_type = "code" THEN {0} ELSE {0, MaxLead}
  /\ pc = "start"
  /\ pos = 0
  /\ line = [eof |-> TRUE, val |-> <<>>]
  /\ label_lines = <<>>
  /\ code_accum = <<>>
  /\ page_number = 1
  /\ x = 0
  /\ y = 0
  /\ iterate_over_single_page = FALSE
  /\ overlong_label_warning_already_issued = FALSE
  /\ start_new_page = TRUE
  /\ output = <<>>
  /\ warnings = 0
  /\ opts = NoOptions
  /\ other = DefaultSheetSpec
  /\ mpc = "make_labels"
  /\ exit_with_admonishment = FALSE
  /\ printed = <<>>

(***************************************************************************)
(* Actions.                                                                *)
(***************************************************************************)
\* Lines 914-968: write the prologue, set the loop variables, read the
\* first line; csv_reader.next() on an empty CSV input raises StopIteration,
\* which nothing catches.
Start ==
  /\ pc = "start"
  /\ output' = <<PrologueEvent>>
  /\ label_lines' = <<>>
  /\ code_accum' = <<>>
  /\ page_number' = 1
  /\ iterate_over_single_page' = FALSE
  /\ x' = InitX(spec)
  /\ y' = InitY(spec)
  /\ overlong_label_warning_already_issued' = FALSE
  /\ start_new_page' = TRUE
  /\ IF input_type = "csv" /\ infile = <<>>
     THEN pc' = "crashed" /\ UNCHANGED <<line, pos>>
     ELSE /\ pc' = "loop"
          /\ line' = ReadLine(infile, 0)
          /\ pos' = IF Len(infile) > 0 THEN 1 ELSE 0
  /\ UNCHANGED <<config, mainvars, warnings>>

\* Lines 1075-1110: read the next line or row and recompute the
\* replication flag from the cursor (nx, ny) the iteration ends with.
ReadNext(nx, ny) ==
  IF input_type = "csv"
  THEN IF pos < Len(infile)
       THEN /\ line' = ReadLine(infile, pos)
            /\ pos' = pos + 1
            /\ iterate_over_single_page' =
                 KeepIterating(input_type, line', delimiter, nx, ny, spec,
                               iterate_over_single_page)
            /\ pc' = "loop"
       ELSE /\ pc' = "exit"
            /\ UNCHANGED <<line, pos, iterate_over_single_page>>
  ELSE /\ line' = ReadLine(infile, pos)
       /\ pos' = IF pos < Len(infile) THEN pos + 1 ELSE pos
       /\ iterate_over_single_page' =
            KeepIterating(input_type, line', delimiter, nx, ny, spec,
                          iterate_over_single_page)
       /\ pc' = "loop"

\* Lines 974-1062: print one label at the cursor and advance.  (The list
\* comprehension of line 985 also rebinds `line`; the read that ends the
\* iteration overwrites it before anything looks at it.)
EmitLabel ==
  /\ pc = "loop"
  /\ LoopCond(input_type, line, iterate_over_single_page)
  /\ LET ln == Stripped(input_type, line, iterate_over_single_page)
         base == IF input_type = "csv" THEN ln ELSE label_lines
         padded == LeftPad(PadLines(base, min_label_lines), leading_spaces)
         lines1 == IF input_type # "code" THEN padded ELSE base
         num_lines == Len(padded)
         warn == /\ input_type # "code"
                 /\ Overlong(num_lines, spec)
                 /\ ~overlong_label_warning_already_issued
         code1 == IF input_type # "code"
                  THEN code_accum \o RenderText(padded, spec)
                  ELSE code_accum
         adv == AdvanceCursor(x, y, page_number, spec)
     IN  /\ EmitCond(input_type, delimiter, ln, iterate_over_single_page)
         /\ warnings' = IF warn THEN warnings + 1 ELSE warnings
         /\ overlong_label_warning_already_issued' =
              (overlong_label_warning_already_issued \/ warn)
         /\ output' = output
              \o (IF start_new_page THEN <<HeaderEvent(page_number, spec)>> ELSE <<>>)
              \o <<BlockEvent(page_number, x, y, spec, code1)>>
              \o (IF adv.wrapped THEN <<ShowpageEvent>> ELSE <<>>)
         /\ x' = adv.x
         /\ y' = adv.y
         /\ page_number' = adv.page
         /\ start_new_page' = adv.wrapped
         /\ label_lines' = ResetLabelLines(input_type, delimiter, lines1)
         /\ code_accum' = ResetCodeAccum(code1)
         /\ ReadNext(adv.x, adv.y)
  /\ UNCHANGED <<config, mainvars>>

\* Lines 1064-1069: escape a text line and add it to the current label.
AppendLine ==
  /\ pc = "loop"
  /\ LoopCond(input_type, line, iterate_over_single_page)
  /\ LET ln == Stripped(input_type, line, iterate_over_single_page)
     IN  /\ ~EmitCond(input_type, delimiter, ln, iterate_over_single_page)
         /\ input_type # "code"
         /\ label_lines' = Append(label_lines, Escape(ln))
  /\ ReadNext(x, y)
  /\ UNCHANGED <<config, mainvars, code_accum, page_number, x, y,
                 overlong_label_warning_already_issued, start_new_page,
                 output, warnings>>

\* Lines 1071-1073: add a line of drawing code to the current label.
AppendCode ==
  /\ pc = "loop"
  /\ LoopCond(input_type, line, iterate_over_single_page)
  /\ LET ln == Stripped(input_type, line, iterate_over_single_page)
     IN  /\ ~EmitCond(input_type, delimiter, ln, iterate_over_single_page)
         /\ input_type = "code"
         /\ code_accum' = Append(code_accum, Instr("code", 0, ln))
  /\ ReadNext(x, y)
  /\ UNCHANGED <<config, mainvars, label_lines, page_number, x, y,
                 overlong_label_warning_already_issued, start_new_page,
                 output, warnings>>

\* Lines 1112-1115: the loop is over (its condition is false, or the CSV
\* reader ran out); close a partly filled page.
Finish ==
  /\ \/ pc = "exit"
     \/ pc = "loop" /\ ~LoopCond(input_type, line, iterate_over_single_page)
  /\ output' = IF NeedsFinalShowpage(x, y)
               THEN Append(output, FinalShowpageEvent) ELSE output
  /\ pc' = "done"
  /\ UNCHANGED <<config, mainvars, pos, line, label_lines, code_accum,
                 page_number, x, y,
                 iterate_over_single_page,
                 overlong_label_warning_already_issued, start_new_page,
                 warnings>>

Next == Start \/ EmitLabel \/ AppendLine \/ AppendCode \/ Finish

Spec == Init /\ [][Next]_vars

\* The runs whose end is checked: every input, mode, delimiter setting and
\* sheet of Init, without left padding or minimum label height, which only
\* change the text of a label.
LiveInit == Init /\ leading_spaces = 0 /\ min_label_lines = 0

\* The program keeps running: a step that can be taken is taken.
LiveSpec == LiveInit /\ [][Next]_vars /\ WF_vars(Next)

(***************************************************************************)
(* main: from the processed options to the call of make_labels.            *)
(***************************************************************************)
mlvars == <<delimiter, infile, min_label_lines, pc, pos, line, label_lines,
            code_accum, page_number, x, y, iterate_over_single_page,
            overlong_label_warning_already_issued, start_new_page, output,
            warnings>>

MainInit ==
  /\ opts \in Options
  /\ spec = SpecFromOptions(opts)
  /\ input_type = "line"
  /\ leading_spaces = opts.leading_spaces
  /\ delimiter = NoDelimiter
  /\ infile = <<>>
  /\ min_label_lines = 0
  /\ pc = "not_called"
  /\ pos = 0
  /\ line = [eof |-> TRUE, val |-> <<>>]
  /\ label_lines = <<>>
  /\ code_accum = <<>>
  /\ page_number = 1
  /\ x = 0
  /\ y = 0
  /\ iterate_over_single_page = FALSE
  /\ overlong_label_warning_already_issued = FALSE
  /\ start_new_page = TRUE
  /\ output = <<>>
  /\ warnings = 0
  /\ other = DefaultSheetSpec
  /\ mpc = "absorb_param"
  /\ exit_with_admonishment = FALSE
  /\ printed = <<>>

\* Lines 1233-1234: absorb the parameter file, if one was named.
AbsorbParam ==
  /\ mpc = "absorb_param"
  /\ IF opts.param_file.present
     THEN /\ spec' = Absorb(spec, ParseParamFile(opts.param_file)).self
          /\ other' = Absorb(spec, ParseParamFile(opts.param_file)).other
     ELSE UNCHANGED <<spec, other>>
  /\ mpc' = "absorb_type"
  /\ UNCHANGED <<mlvars, input_type, leading_spaces, opts,
                 exit_with_admonishment, printed>>

\* Lines 1237-1238: absorb the built-in type, if one was named;
\* sheetspec_for_type raises an exception for a type it does not know.
AbsorbType ==
  /\ mpc = "absorb_type"
  /\ IF opts.type = NoName
     THEN /\ mpc' = "check_modes"
          /\ UNCHANGED <<spec, other>>
     ELSE IF opts.type \notin KnownTypes
     THEN /\ mpc' = "crashed"
          /\ UNCHANGED <<spec, other>>
     ELSE /\ spec' = Absorb(spec, SheetspecForType(opts.type)).self
          /\ other' = Absorb(spec, SheetspecForType(opts.type)).other
          /\ mpc' = "check_modes"
  /\ UNCHANGED <<mlvars, input_type, leading_spaces, opts,
                 exit_with_admonishment, printed>>

\* Lines 1240-1266: the checks of the input modes, and the input type.
CheckModes ==
  /\ mpc = "check_modes"
  /\ exit_with_admonishment' = (exit_with_admonishment \/ ModeError(opts))
  /\ input_type' = InputTypeOf(opts)
  /\ mpc' = "show_parameters"
  /\ UNCHANGED <<mlvars, spec, leading_spaces, opts, other, printed>>

\* Lines 1268-1273: with --show-parameters, print the spec and exit 0, or
\* exit 1 when no type was named.
ShowParameters ==
  /\ mpc = "show_parameters"
  /\ IF opts.show_parameters
     THEN IF opts.type = NoName
          THEN /\ mpc' = "exit1"
               /\ UNCHANGED printed
          ELSE /\ printed' = StrSpec(spec)
               /\ mpc' = "exit0"
     ELSE /\ mpc' = "check_spec"
          /\ UNCHANGED printed
  /\ UNCHANGED <<mlvars, spec, input_type, leading_spaces, opts, other,
                 exit_with_admonishment>>

\* Lines 1275-1322: the required parameters and first_label.
CheckSpec ==
  /\ mpc = "check_spec"
  /\ IF FirstLabelCheckRaises(spec)
     THEN /\ mpc' = "crashed"
          /\ exit_with_admonishment' =
               (exit_with_admonishment \/ MissingGeometry(spec))
     ELSE /\ mpc' = "exit_or_run"
          /\ exit_with_admonishment' =
               (\/ exit_with_admonishment
                \/ MissingGeometry(spec)
                \/ spec.first_label < 1
                \/ FirstLabelTooHigh(spec))
  /\ UNCHANGED <<mlvars, spec, input_type, leading_spaces, opts, other,
                 printed>>

\* Lines 1324-1329: exit 1 after an error, call make_labels otherwise.
ExitOrRun ==
  /\ mpc = "exit_or_run"
  /\ IF exit_with_admonishment
     THEN /\ mpc' = "exit1"
          /\ pc' = pc
     ELSE /\ mpc' = "make_labels"
          /\ pc' = "start"
  /\ UNCHANGED <<delimiter, infile, min_label_lines, pos, line, label_lines,
                 code_accum, page_number, x, y, iterate_over_single_page,
                 overlong_label_warning_already_issued, start_new_page,
                 output, warnings, spec, input_type, leading_spaces, opts,
                 other, exit_with_admonishment, printed>>

MainNext ==
  \/ AbsorbParam
  \/ AbsorbType
  \/ CheckModes
  \/ ShowParameters
  \/ CheckSpec
  \/ ExitOrRun

MainSpec == MainInit /\ [][MainNext]_vars

(***************************************************************************)
(* The emitted document, seen through its label blocks and page headers.   *)
(***************************************************************************)
IsBlock(e) == e.ev = "block"
IsHeader(e) == e.ev = "header"
IsTerminator(e) == e.ev \in {"showpage", "final_showpage"}
Blocks == SelectSeq(output, IsBlock)
Headers == SelectSeq(output, IsHeader)
NumCells == spec.horiz_num_labels * spec.vert_num_labels
\* Column-major index of a block's cell, 0-based.
CellIndex(b) == b.x * spec.vert_num_labels + b.y
Replicating == input_type = "line" /\ ~delimiter.set /\ infile # <<>>

\* C1: whole-page replication fills exactly one page. In line mode with no
\* delimiter and a non-empty input, the i-th placed block sits at cell
\* first_label - 1 + (i - 1) of page 1, no block is ever placed on another
\* page, after the block of the last cell the loop condition is false, and
\* the finished run holds NumCells - first_label + 1 blocks.
C1_OnePageFilled ==
  Replicating =>
    /\ \A i \in 1..Len(Blocks) :
         /\ Blocks[i].page = 1
         /\ CellIndex(Blocks[i]) = spec.first_label - 1 + (i - 1)
    /\ (pc = "loop" /\ Len(Blocks) = NumCells - spec.first_label + 1)
         => ~LoopCond(input_type, line, iterate_over_single_page)
    /\ pc = "done" => Len(Blocks) = NumCells - spec.first_label + 1

\* An 80-cell sheet filled from its first label: 80 blocks, run finished.
C1_Witness ==
  /\ Replicating
  /\ pc = "done"
  /\ NumCells = 80
  /\ spec.first_label = 1
  /\ Len(Blocks) = 80

\* C2: the advance step. A step that places a block places it at the
\* cursor, and leaves the cursor at (x, y+1, page) when y+1 is a row of the
\* grid, else at (x+1, 0, page) when x+1 is a column, else at (0, 0,
\* page+1); exactly in the last case the block is followed by a page
\* terminator and start_new_page is set. A page header is written with the
\* block exactly when start_new_page was set.
C2_AdvanceStep ==
  [][ Len(Blocks') = Len(Blocks) + 1 =>
        LET b == Blocks'[Len(Blocks')]
            wraps == /\ b.y + 1 >= spec.vert_num_labels
                     /\ b.x + 1 >= spec.horiz_num_labels
        IN  /\ b.x = x /\ b.y = y /\ b.page = page_number
            /\ IF b.y + 1 < spec.vert_num_labels
               THEN x' = b.x /\ y' = b.y + 1 /\ page_number' = b.page
               ELSE IF b.x + 1 < spec.horiz_num_labels
               THEN x' = b.x + 1 /\ y' = 0 /\ page_number' = b.page
               ELSE x' = 0 /\ y' = 0 /\ page_number' = b.page + 1
            /\ start_new_page' = wraps
            /\ output'[Len(output')].ev = (IF wraps THEN "showpage" ELSE "block")
            /\ Len(Headers') = Len(Headers) + (IF start_new_page THEN 1 ELSE 0)
    ]_vars

\* A 2 x 2 grid whose fourth block wrapped the cursor to page 2.
C2_Witness ==
  /\ spec.horiz_num_labels = 2
  /\ spec.vert_num_labels = 2
  /\ Len(Blocks) = 4
  /\ Blocks[2].x = 0 /\ Blocks[2].y = 1
  /\ Blocks[3].x = 1 /\ Blocks[3].y = 0
  /\ page_number = 2 /\ x = 0 /\ y = 0
  /\ start_new_page

\* C3: the first emitted block is at x = floor((first_label-1) /
\* vert_num_labels), y = (first_label-1) mod vert_num_labels on page 1, after
\* the header of page 1; with first_label = 1 that is cell (0,0).
C3_InitialCursor ==
  Len(Blocks) >= 1 =>
    /\ Blocks[1].x = (spec.first_label - 1) \div spec.vert_num_labels
    /\ Blocks[1].y = (spec.first_label - 1) % spec.vert_num_labels
    /\ Blocks[1].page = 1
    /\ Headers[1].page = 1
    /\ spec.first_label = 1 => (Blocks[1].x = 0 /\ Blocks[1].y = 0)

\* A first block in the second column: first_label = 4 on a 2 x 2 grid.
C3_Witness ==
  /\ Len(Blocks) >= 1
  /\ spec.first_label = 4
  /\ spec.vert_num_labels = 2
  /\ Blocks[1].x = 1 /\ Blocks[1].y = 1

\* C4: once count >= 1 blocks are placed, exactly
\* ceil((first_label - 1 + count) / NumCells) page headers have been written.
C4_PageCount ==
  Len(Blocks) >= 1 =>
    Len(Headers) =
      (spec.first_label - 1 + Len(Blocks) + NumCells - 1) \div NumCells

\* Two pages: three labels from first_label = 2 on a two-cell grid, the
\* first page entered at its last cell.
C4_Witness ==
  /\ NumCells = 2
  /\ spec.first_label = 2
  /\ Len(Blocks) = 3
  /\ Len(Headers) = 2

IsFinalShowpage(e) == e.ev = "final_showpage"
FinalShowpages == SelectSeq(output, IsFinalShowpage)
\* Position in the document of the last block written.
LastBlockAt ==
  CHOOSE i \in 1..Len(output) :
    IsBlock(output[i]) /\ \A j \in (i + 1)..Len(output) : ~IsBlock(output[j])

\* C5: when the run has ended, a closing page terminator has been written
\* if and only if the final cursor is not (0,0), never more than one, and a
\* run that placed a block ends with exactly one terminator after its last
\* block, the last event of the document.
C5_FinalTerminator ==
  pc = "done" =>
    /\ (Len(FinalShowpages) = 1) <=> ~(x = 0 /\ y = 0)
    /\ Len(FinalShowpages) <= 1
    /\ Len(Blocks) >= 1 =>
         /\ Len(output) = LastBlockAt + 1
         /\ IsTerminator(output[Len(output)])

\* Three labels on the 3 x 10 sheet from first_label = 1: cells (0,0),
\* (0,1), (0,2) of page 1, then the single closing terminator.
C5_Witness ==
  /\ pc = "done"
  /\ spec.horiz_num_labels = 3 /\ spec.vert_num_labels = 10
  /\ delimiter.set
  /\ Len(Blocks) = 3
  /\ \A i \in 1..3 : Blocks[i].x = 0 /\ Blocks[i].y = i - 1 /\ Blocks[i].page = 1
  /\ Len(SelectSeq(output, IsTerminator)) = 1
  /\ output[Len(output)].ev = "final_showpage"

(***************************************************************************)
(* Label contents.                                                         *)
(***************************************************************************)
\* The text lines a block shows, in order.
IsShow(ins) == ins.op = "show"
ShowTexts(b) ==
  LET shows == SelectSeq(b.code, IsShow)
  IN  [i \in 1..Len(shows) |-> shows[i].text]
Max(a, b) == IF a >= b THEN a ELSE b
\* A line of the input that closes a label: once its trailing newline and
\* blanks are removed it is the delimiter.
IsDelimLine(l) == delimiter.set /\ RStrip(l) = delimiter.val
DelimSet == { i \in 1..Len(infile) : IsDelimLine(infile[i]) }
KthDelim(k) ==
  IF k = 0 THEN 0
  ELSE CHOOSE i \in DelimSet : Cardinality({ j \in DelimSet : j <= i }) = k
\* The input lines between the (k-1)-th and the k-th delimiter line.
Segment(k) == SubSeq(infile, KthDelim(k - 1) + 1, KthDelim(k) - 1)
\* A text line as a block shows it: stripped, escaped and left-padded.
Shown(l) == Spaces(leading_spaces) \o Escape(RStrip(l))

\* C6: delimited grouping in line mode. There is never more than one block
\* per delimiter line, and exactly one per delimiter line when the run has
\* ended; the k-th block shows the lines between the (k-1)-th and the k-th
\* delimiter line, in input order and nothing else but the blank lines that
\* pad it to min_label_lines, also when that label is empty; the k-th block
\* has the k-th cell counted from first_label.
C6_DelimitedGrouping ==
  (input_type = "line" /\ delimiter.set) =>
    /\ Len(Blocks) <= Cardinality(DelimSet)
    /\ pc = "done" => Len(Blocks) = Cardinality(DelimSet)
    /\ \A k \in 1..Len(Blocks) :
         LET seg == Segment(k)
             t == ShowTexts(Blocks[k])
         IN  /\ Len(t) = Max(Len(seg), min_label_lines)
             /\ \A i \in 1..Len(seg) : t[i] = Shown(seg[i])
             /\ \A i \in (Len(seg) + 1)..Len(t) : t[i] = Spaces(leading_spaces)
             /\ (Blocks[k].page - 1) * NumCells + CellIndex(Blocks[k])
                  = spec.first_label - 1 + (k - 1)

\* Two labels of different lines, the first of two lines, the second of one.
C6_Witness ==
  /\ pc = "done"
  /\ input_type = "line" /\ delimiter.set
  /\ min_label_lines = 0
  /\ Len(Blocks) = 2
  /\ Len(ShowTexts(Blocks[1])) = 2
  /\ Len(ShowTexts(Blocks[2])) = 1
  /\ ShowTexts(Blocks[2])[1] # ShowTexts(Blocks[1])[2]

\* C7: end of stream closes a label. In line mode with a delimiter, when
\* the run has ended every input line that is not a delimiter line is shown
\* by some block, the lines after the last delimiter line included.
C7_EndOfStreamClosesLabel ==
  (pc = "done" /\ input_type = "line" /\ delimiter.set) =>
    \A i \in 1..Len(infile) :
      ~IsDelimLine(infile[i]) =>
        \E k \in 1..Len(Blocks) :
          \E j \in 1..Len(ShowTexts(Blocks[k])) :
            ShowTexts(Blocks[k])[j] = Shown(infile[i])

\* C8: CSV mode emits one label per row. When the run has ended on a CSV
\* input of r >= 1 rows, r blocks are written, the j-th with one text line
\* per field of row j (and the blank lines that pad it to min_label_lines).
C8_CsvOneLabelPerRow ==
  (pc = "done" /\ input_type = "csv" /\ Len(infile) >= 1) =>
    /\ Len(Blocks) = Len(infile)
    /\ \A j \in 1..Len(Blocks) :
         Len(ShowTexts(Blocks[j])) = Max(Len(infile[j]), min_label_lines)

\* C9: replicated copies are identical. In whole-page replication in line
\* mode every placed block carries the drawing instructions of the first.
C9_ReplicatedCopiesIdentical ==
  Replicating =>
    \A i \in 1..Len(Blocks) : Blocks[i].code = Blocks[1].code

\* C10: code mode with no delimiter. Every block placed holds the whole
\* input code, line for line; no block is empty.
C10_CodeInEveryCell ==
  (input_type = "code" /\ ~delimiter.set /\ infile # <<>>) =>
    \A i \in 1..Len(Blocks) :
      /\ Blocks[i].code # <<>>
      /\ Blocks[i].code =
           [j \in 1..Len(infile) |-> Instr("code", 0, RStrip(infile[j]))]

(***************************************************************************)
(* Claims about main and SheetSpec.absorb, under MainSpec.                 *)
(***************************************************************************)
MainDone == mpc \in {"exit0", "exit1", "crashed", "make_labels"}
\* sys.exit(1), or an exception nothing catches.
NonZeroExit == mpc \in {"exit1", "crashed"}
NothingWritten == pc = "not_called" /\ output = <<>>
FirstLabelOutOfRange(s) ==
  \/ s.first_label < 1
  \/ /\ s.horiz_num_labels # NoneVal
     /\ s.vert_num_labels # NoneVal
     /\ s.first_label > s.horiz_num_labels * s.vert_num_labels

NumModes(o) ==
  (IF o.line_input THEN 1 ELSE 0) + (IF o.code_input THEN 1 ELSE 0)
    + (IF o.csv_input THEN 1 ELSE 0)
ModeConflict(o) ==
  \/ NumModes(o) >= 2
  \/ o.leading_spaces > 0 /\ o.code_input
  \/ NumModes(o) = 0 /\ ~o.show_parameters

\* C12: mode-flag errors are fatal. When the run has ended and two input
\* modes were selected together, or leading-spaces was combined with
\* code-input, or no mode was selected without show-parameters, the exit is
\* non-zero and nothing was printed or written.
C12_ModeErrorsFatal ==
  (MainDone /\ ModeConflict(opts)) =>
    (NonZeroExit /\ printed = <<>> /\ NothingWritten)

\* C13: geometry completeness before rendering. make_labels is entered only
\* with all eight geometry fields set and first_label in
\* 1 .. horiz_num_labels * vert_num_labels; a run that has ended with a
\* geometry field still unset has exited non-zero without entering
\* make_labels.
C13_GeometryComplete ==
  /\ mpc = "make_labels" =>
       /\ \A f \in GeometryFields : spec[f] # NoneVal
       /\ spec.first_label \in
            1..(spec.horiz_num_labels * spec.vert_num_labels)
  /\ (MainDone /\ \E f \in GeometryFields : spec[f] = NoneVal) =>
       (NonZeroExit /\ NothingWritten)

\* A parameter file without vert-space and nothing else wrong: exit 1.
C13_Witness ==
  /\ mpc = "exit1"
  /\ ~opts.show_parameters
  /\ ~ModeError(opts)
  /\ spec.vert_space = NoneVal
  /\ \A f \in GeometryFields \ {"vert_space"} : spec[f] # NoneVal
  /\ spec.first_label \in 1..(spec.horiz_num_labels * spec.vert_num_labels)
  /\ NothingWritten

\* The layers of a field: what the command line, the parameter file and the
\* built-in type give for it.
CliFields ==
  {"first_label", "font_name", "font_size", "left_margin", "bottom_margin"}
Unset(f) == IF f = "font_name" THEN NoName ELSE NoneVal
CliSupplied(f) == f \in CliFields /\ opts[f] # Unset(f)
ParamSupplied(f) ==
  /\ opts.param_file.present
  /\ f # "first_label"
  /\ opts.param_file[f] # Unset(f)
TypeSupplied(f) == opts.type \in KnownTypes /\ f # "first_label"
\* Both merges have run.
MergesDone ==
  /\ mpc \notin {"absorb_param", "absorb_type"}
  /\ opts.type = NoName \/ opts.type \in KnownTypes
\* The value of the highest layer that supplied the field.
HighestSupplied(f) ==
  IF CliSupplied(f) THEN opts[f]
  ELSE IF ParamSupplied(f) THEN opts.param_file[f]
  ELSE IF TypeSupplied(f) THEN SheetspecForType(opts.type)[f]
  ELSE DefaultSheetSpec[f]
\* The value of the highest layer that supplied a value other than the
\* library default.
HighestNonDefault(f) ==
  IF CliSupplied(f) /\ opts[f] # DefaultSheetSpec[f] THEN opts[f]
  ELSE IF ParamSupplied(f) /\ opts.param_file[f] # DefaultSheetSpec[f]
       THEN opts.param_file[f]
  ELSE IF TypeSupplied(f)
       THEN SheetspecForType(opts.type)[f]
  ELSE DefaultSheetSpec[f]

AbsorbedGeometry(self, o, selfAfter, otherAfter) ==
  /\ \A f \in GeometryFields :
       selfAfter[f] = IF self[f] = NoneVal THEN o[f] ELSE self[f]
  /\ otherAfter = o

\* C15: absorb on geometry fields. Each call of absorb sets every unset
\* geometry field of self to the other spec's value, leaves every set
\* geometry field of self as it was, and leaves the other spec as it was.
C15_AbsorbGeometry ==
  [][ /\ (mpc = "absorb_param" /\ opts.param_file.present) =>
           AbsorbedGeometry(spec, ParseParamFile(opts.param_file),
                            spec', other')
      /\ (mpc = "absorb_type" /\ opts.type \in KnownTypes) =>
           AbsorbedGeometry(spec, SheetspecForType(opts.type),
                            spec', other') ]_vars

\* After absorbing a parameter file: the left margin of the command line
\* is kept, the unset label width is filled, the file's spec is intact.
C15_Witness ==
  /\ mpc = "absorb_type"
  /\ opts.param_file = ParamFileCustom
  /\ opts.left_margin = 500
  /\ spec.left_margin = 500
  /\ spec.label_width = 20000
  /\ spec.bottom_margin = 900
  /\ other = ParseParamFile(ParamFileCustom)

(***************************************************************************)
(* Text of a label, read back from the document.                           *)
(***************************************************************************)
SpecialChars == {"(", ")", "\\"}
\* A PostScript string body in which every "(", ")" and backslash of the
\* text stands right after one escaping backslash, and every backslash
\* escapes one of them.
RECURSIVE WellEscaped(_)
WellEscaped(t) ==
  IF t = <<>> THEN TRUE
  ELSE IF Head(t) = "\\"
       THEN /\ Len(t) >= 2
            /\ t[2] \in SpecialChars
            /\ WellEscaped(SubSeq(t, 3, Len(t)))
       ELSE Head(t) \notin SpecialChars /\ WellEscaped(Tail(t))
\* The text a well-escaped string body stands for.
RECURSIVE Unescape(_)
Unescape(t) ==
  IF t = <<>> THEN <<>>
  ELSE IF Head(t) = "\\" /\ Len(t) >= 2
       THEN <<t[2]>> \o Unescape(SubSeq(t, 3, Len(t)))
       ELSE <<Head(t)>> \o Unescape(Tail(t))
\* A text without its left padding.
RECURSIVE LStrip(_)
LStrip(t) == IF t # <<>> /\ Head(t) = " " THEN LStrip(Tail(t)) ELSE t
\* The input lines (or CSV fields) of the k-th label of a text input.
SourceLines(k) ==
  IF input_type = "csv" THEN infile[k]
  ELSE IF delimiter.set THEN Segment(k)
  ELSE infile
\* The size written by a block's font selection.
IsSetFont(ins) == ins.op = "setfont"
WrittenFontSize(b) == SelectSeq(b.code, IsSetFont)[1].arg

\* C16: escaping in line mode. Every shown line is well escaped (each "(",
\* ")" and backslash of the input line comes after exactly one added
\* backslash, so the string is balanced) and stands for the input line,
\* every other character unchanged.
C16_LineEscaping ==
  input_type = "line" =>
    \A k \in 1..Len(Blocks) :
      LET src == SourceLines(k)
          t == ShowTexts(Blocks[k])
      IN  /\ Len(t) >= Len(src)
          /\ \A i \in 1..Len(t) : WellEscaped(t[i])
          /\ \A i \in 1..Len(src) : Unescape(LStrip(t[i])) = RStrip(src[i])

\* A block showing a(\) with each of its three special characters escaped.
C16_Witness ==
  /\ input_type = "line"
  /\ Len(Blocks) >= 1
  /\ Len(ShowTexts(Blocks[1])) >= 1
  /\ ShowTexts(Blocks[1])[1] = <<"a", "\\", "(", "\\", "\\", "\\", ")">>

\* C17: escaping in CSV mode. Every shown field is well escaped and stands
\* for the field of the row.
C17_CsvEscaping ==
  input_type = "csv" =>
    \A k \in 1..Len(Blocks) :
      LET src == SourceLines(k)
          t == ShowTexts(Blocks[k])
      IN  /\ Len(t) >= Len(src)
          /\ \A i \in 1..Len(t) : WellEscaped(t[i])
          /\ \A i \in 1..Len(src) : Unescape(LStrip(t[i])) = src[i]

\* C18: font auto-scale. The size written for a text label of n lines is
\* font_size / (1 + (n - 4) / 10), that is 10 * font_size / (n + 6).
C18_FontAutoScale ==
  input_type # "code" =>
    \A k \in 1..Len(Blocks) :
      WrittenFontSize(Blocks[k]) * (Len(ShowTexts(Blocks[k])) + 6)
        = 10 * spec.font_size

\* C19: min-label-lines padding. A line- or CSV-mode label of fewer than
\* min_label_lines lines is shown with blank lines appended up to exactly
\* min_label_lines lines, a longer one with its own lines and count; the
\* lines it has come first, in order; a label of four lines gets the
\* configured font size.
C19_MinLabelLines ==
  input_type # "code" =>
    \A k \in 1..Len(Blocks) :
      LET src == SourceLines(k)
          t == ShowTexts(Blocks[k])
      IN  /\ Len(t) = Max(Len(src), min_label_lines)
          /\ \A i \in 1..Len(src) :
               LStrip(t[i]) = IF input_type = "csv" THEN src[i]
                              ELSE Escape(RStrip(src[i]))
          /\ \A i \in (Len(src) + 1)..Len(t) : LStrip(t[i]) = <<>>
          /\ Len(t) = 4 => WrittenFontSize(Blocks[k]) = spec.font_size

\* The CSV row of two fields with min-label-lines = 4: two blank lines
\* appended, four lines, the font not scaled.
C19_Witness ==
  /\ input_type = "csv"
  /\ min_label_lines = 4
  /\ Len(Blocks) = 1
  /\ Len(infile[1]) = 2
  /\ Len(ShowTexts(Blocks[1])) = 4
  /\ LStrip(ShowTexts(Blocks[1])[3]) = <<>>
  /\ LStrip(ShowTexts(Blocks[1])[4]) = <<>>
  /\ WrittenFontSize(Blocks[1]) = spec.font_size

\* C20: cell translation. The translation written for a block at (x, y) is
\* exactly (x * (label_width + horiz_space), y * (label_height + vert_space)).
C20_CellTranslation ==
  \A k \in 1..Len(Blocks) :
    /\ Blocks[k].tx
         = Blocks[k].x * (spec.label_width + spec.horiz_space) * 10000
    /\ Blocks[k].ty
         = Blocks[k].y * (spec.label_height + spec.vert_space) * 10000

(***************************************************************************)
(* Placement of the lines of a label.                                      *)
(***************************************************************************)
IsMoveTo(ins) == ins.op = "moveto"
Moves(b) == SelectSeq(b.code, IsMoveTo)
\* The fraction num / den of hundredths of a point, to the nearest
\* millionth of a point.
Millionths(num, den) ==
  (num \div den) * 10000 + (2 * (num % den) * 10000 + den) \div (2 * den)
Abs(v) == IF v < 0 THEN 0 - v ELSE v

\* C21: vertical line placement. In a text label of n >= 1 lines, line i
\* (counted from 0) is moved to y_i = label_height * n / (n + 1)
\* - i * label_height / (n + 2), as the six decimals written show it; the
\* y_i strictly decrease, each step being label_height / (n + 2); every y_i
\* is strictly between 0 and label_height; every line is moved to the
\* horizontal position inner_margin + 2 = 3.
C21_LinePlacement ==
  input_type # "code" =>
    \A k \in 1..Len(Blocks) :
      LET m == Moves(Blocks[k])
          n == Len(ShowTexts(Blocks[k]))
          h == spec.label_height
      IN  /\ Len(m) = n
          /\ \A j \in 1..n :
               /\ m[j].py =
                    Millionths(h * (n * (n + 2) - (j - 1) * (n + 1)),
                               (n + 1) * (n + 2))
               /\ m[j].py > 0
               /\ m[j].py < h * 10000
               /\ m[j].px = 3000000
          /\ \A j \in 1..(n - 1) :
               /\ m[j].py > m[j + 1].py
               /\ Abs((m[j].py - m[j + 1].py) * (n + 2) - h * 10000) <= n + 2

\* A label of five lines on labels 36 points high: the lines start at 30
\* and go down by 36/7, so the second is written as 24.857143.
C21_Witness ==
  /\ input_type = "line"
  /\ spec.label_height = 3600
  /\ Len(Blocks) >= 1
  /\ Len(Moves(Blocks[1])) = 5
  /\ Moves(Blocks[1])[1].py = 30000000
  /\ Moves(Blocks[1])[2].py = 24857143
  /\ Moves(Blocks[1])[5].py = 9428571

(***************************************************************************)
(* The warning about an unusually long label.                              *)
(***************************************************************************)
\* A block whose label has at least 160 / vert_num_labels lines.
OverlongBlock(b) == Len(ShowTexts(b)) * spec.vert_num_labels >= 160
OverlongBlocks == SelectSeq(Blocks, OverlongBlock)

\* C22: the overlong-label warning is issued once per run. At every moment
\* the warning has been issued once if a text label of at least
\* 160 / vert_num_labels lines has been placed, and not at all otherwise,
\* however many such labels or copies were placed; the step that issues it
\* places the label and the run goes on.
C22_WarnOnce ==
  /\ [](/\ warnings <= 1
        /\ (warnings = 1) <=> (input_type # "code" /\ Len(OverlongBlocks) >= 1))
  /\ [][ warnings' # warnings =>
           /\ Len(Blocks') = Len(Blocks) + 1
           /\ OverlongBlock(Blocks'[Len(Blocks')])
           /\ pc' \in {"loop", "exit"} ]_vars

\* Three delimited labels of eight lines each on the 20-row sheet: one
\* warning for three long labels.
C22_Witness ==
  /\ pc = "done"
  /\ delimiter.set
  /\ spec.vert_num_labels = 20
  /\ Len(Blocks) = 3
  /\ Len(OverlongBlocks) = 3
  /\ Len(ShowTexts(Blocks[3])) = 8
  /\ warnings = 1

(***************************************************************************)
(* The parameter dump read back as a parameter file.                       *)
(***************************************************************************)
DumpFields == GeometryFields \cup {"font_name", "font_size"}
Reloaded == ParseParamFile(ReadParamLines(printed))

\* C23: show-parameters round trip. When the parameters have been printed,
\* parse_param_file applied to the printed text gives back the left_margin,
\* bottom_margin, label_width, label_height, horiz_space, vert_space,
\* horiz_num_labels, vert_num_labels, font_name and font_size of the spec,
\* also when a dimension is not a whole number.
C23_DumpRoundTrip ==
  (mpc = "exit0" /\ printed # <<>>) =>
    \A f \in DumpFields : Reloaded[f] = spec[f]

(***************************************************************************)
(* Pages of the document.                                                  *)
(***************************************************************************)
Terminators == SelectSeq(output, IsTerminator)

\* C24: page structure. Every page header is directly followed by a label
\* block (never by a terminator or by the end of the document); every label
\* block comes after a page header with no page terminator between the
\* two; every header carries the left and bottom margins of the spec as
\* its translation.
C24_PageStructure ==
  \A i \in 1..Len(output) :
    /\ IsHeader(output[i]) =>
         /\ i < Len(output)
         /\ IsBlock(output[i + 1])
         /\ output[i].tx = spec.left_margin * 10000
         /\ output[i].ty = spec.bottom_margin * 10000
    /\ IsBlock(output[i]) =>
         \E j \in 1..(i - 1) :
           /\ IsHeader(output[j])
           /\ \A m \in (j + 1)..(i - 1) : ~IsTerminator(output[m])

\* Two pages: the header of page 2 comes right after the terminator of
\* page 1 and right before a block, with margins 14 and 17 points.
C24_Witness ==
  /\ Len(Headers) = 2
  /\ \E i \in 2..(Len(output) - 1) :
       /\ IsTerminator(output[i - 1])
       /\ IsHeader(output[i])
       /\ output[i].page = 2
       /\ output[i].tx = 14000000
       /\ output[i].ty = 17000000
       /\ IsBlock(output[i + 1])

\* C25: balanced pages. When the run has ended, as many page terminators
\* as page headers have been written, and every terminator comes after a
\* header that no earlier terminator has closed; also for an empty input.
C25_BalancedPages ==
  pc = "done" =>
    /\ Len(Terminators) = Len(Headers)
    /\ \A i \in 1..Len(output) :
         IsTerminator(output[i]) =>
           Len(SelectSeq(SubSeq(output, 1, i), IsHeader))
             = Len(SelectSeq(SubSeq(output, 1, i), IsTerminator))

(***************************************************************************)
(* Cells and the cursor.                                                   *)
(***************************************************************************)
\* C26: one label per cell. No two blocks have the same (x, y) on the same
\* page, and no block of page 1 has a cell whose column-major index is
\* below first_label - 1.
C26_OneLabelPerCell ==
  LET b == Blocks
  IN  /\ \A i, j \in 1..Len(b) :
           (i # j) =>
             ~(b[i].x = b[j].x /\ b[i].y = b[j].y /\ b[i].page = b[j].page)
      /\ \A i \in 1..Len(b) :
           b[i].page = 1 => CellIndex(b[i]) >= spec.first_label - 1

\* Three labels from the second cell of a 1 x 2 sheet: cell (0,1) of page
\* 1, then both cells of page 2.
C26_Witness ==
  /\ spec.horiz_num_labels = 1 /\ spec.vert_num_labels = 2
  /\ spec.first_label = 2
  /\ Len(Blocks) = 3
  /\ Blocks[1].page = 1 /\ Blocks[1].y = 1
  /\ Blocks[2].page = 2 /\ Blocks[2].y = 0
  /\ Blocks[3].page = 2 /\ Blocks[3].y = 1

\* C27: cursor bounds. Between the iterations of the loop and whenever a
\* block is placed, 0 <= x < horiz_num_labels, 0 <= y < vert_num_labels and
\* the page number is at least 1; the page number never decreases.
C27_CursorBounds ==
  /\ [](/\ pc \in {"loop", "exit", "done"} =>
             /\ x \in 0..(spec.horiz_num_labels - 1)
             /\ y \in 0..(spec.vert_num_labels - 1)
             /\ page_number >= 1
        /\ \A i \in 1..Len(Blocks) :
             /\ Blocks[i].x \in 0..(spec.horiz_num_labels - 1)
             /\ Blocks[i].y \in 0..(spec.vert_num_labels - 1)
             /\ Blocks[i].page >= 1)
  /\ [][page_number' >= page_number]_vars

\* The cursor in the last cell of page 2 of a 2 x 1 sheet.
C27_Witness ==
  /\ pc = "loop"
  /\ spec.horiz_num_labels = 2 /\ spec.vert_num_labels = 1
  /\ page_number = 2
  /\ x = 1 /\ y = 0
  /\ Len(Blocks) = 3

(***************************************************************************)
(* Termination and the replication mode.                                   *)
(***************************************************************************)
\* C28: termination. Every run ends (the loop is left and the document is
\* closed, or the run is ended by the exception of an empty CSV input).
\* Without a delimiter and outside CSV mode every block is placed by
\* replication after the end of the input, and at most
\* horiz_num_labels * vert_num_labels blocks are placed.
C28_Termination ==
  /\ <>(pc \in {"done", "crashed"})
  /\ []((input_type # "csv" /\ ~delimiter.set) => Len(Blocks) <= NumCells)
  /\ [][ (input_type # "csv" /\ ~delimiter.set
            /\ Len(Blocks') > Len(Blocks)) =>
           (line.eof /\ iterate_over_single_page) ]_vars

\* A replicated run that has ended with every cell of a 2 x 2 sheet filled.
C28_Witness ==
  /\ pc = "done"
  /\ input_type = "code" /\ ~delimiter.set
  /\ NumCells = 4
  /\ Len(Blocks) = 4
  /\ ~iterate_over_single_page

\* The mode of a run: DONE once the loop is or will be left, else
\* REPLICATE_ACTIVE while iterate_over_single_page is set, else NORMAL.
RunMode ==
  IF \/ pc \in {"exit", "done", "crashed"}
     \/ pc = "loop" /\ ~LoopCond(input_type, line, iterate_over_single_page)
  THEN "DONE"
  ELSE IF iterate_over_single_page THEN "REPLICATE_ACTIVE"
  ELSE "NORMAL"

\* C29: the mode state machine. The mode only stays as it is or goes from
\* NORMAL to REPLICATE_ACTIVE, from NORMAL to DONE, or from
\* REPLICATE_ACTIVE to DONE. Replication becomes active only at the end of
\* the input, with no delimiter and outside CSV mode; it stays active as
\* long as the cursor has not wrapped to (0, 0) and ends, with the run,
\* when it has; after DONE nothing is read or placed and replication is not
\* active again. With a delimiter or in CSV mode replication is never
\* active.
C29_ModeMachine ==
  /\ [][ /\ <<RunMode, RunMode'>> \in
              { <<"NORMAL", "NORMAL">>, <<"NORMAL", "REPLICATE_ACTIVE">>,
                <<"NORMAL", "DONE">>,
                <<"REPLICATE_ACTIVE", "REPLICATE_ACTIVE">>,
                <<"REPLICATE_ACTIVE", "DONE">>, <<"DONE", "DONE">> }
         /\ (RunMode = "NORMAL" /\ RunMode' = "REPLICATE_ACTIVE") =>
              (line'.eof /\ ~delimiter.set /\ input_type # "csv")
         /\ (RunMode = "REPLICATE_ACTIVE") =>
              /\ Len(Blocks') = Len(Blocks) + 1
              /\ (RunMode' = "REPLICATE_ACTIVE") <=> ~(x' = 0 /\ y' = 0)
         /\ (RunMode = "DONE") =>
              /\ pos' = pos
              /\ Len(Blocks') = Len(Blocks)
              /\ ~iterate_over_single_page' ]_vars
  /\ []((delimiter.set \/ input_type = "csv") => ~iterate_over_single_page)

\* Replication active on a 2 x 2 sheet with three of the four copies placed.
C29_Witness ==
  /\ RunMode = "REPLICATE_ACTIVE"
  /\ NumCells = 4
  /\ spec.first_label = 1
  /\ Len(Blocks) = 3
  /\ x = 1 /\ y = 1

(***************************************************************************)
(* Recognition of the delimiter.                                           *)
(***************************************************************************)
\* The input lines that are the delimiter character for character (a line
\* of the model is the line read without its newline).
ExactDelimSet == { i \in 1..Len(infile) : infile[i] = delimiter.val }

\* C30: the delimiter is recognised by exact match. In line mode with a
\* delimiter, a line closes a label if and only if it equals the delimiter
\* once its newline is removed: there are never more blocks than such
\* lines, as many when the run has ended, and a line that differs from the
\* delimiter by trailing blanks only is not among them.
C30_ExactDelimiter ==
  (input_type = "line" /\ delimiter.set) =>
    /\ Len(Blocks) <= Cardinality(ExactDelimSet)
    /\ pc = "done" => Len(Blocks) = Cardinality(ExactDelimSet)

(***************************************************************************)
(* Code mode with a delimiter.                                             *)
(***************************************************************************)
\* The lines of a segment as code mode accumulates them.
CodeOf(seg) == [j \in 1..Len(seg) |-> Instr("code", 0, RStrip(seg[j]))]

\* C31: delimited code mode. In code mode with a delimiter there is never
\* more than one block per delimiter line, and exactly one per delimiter
\* line when the run has ended; the k-th block holds the code lines between
\* the (k-1)-th and the k-th delimiter line, in order, and nothing else: no
\* font or positioning instruction, no line of an earlier label, no line
\* added for min_label_lines; no overlong-label warning is issued.
C31_DelimitedCode ==
  (input_type = "code" /\ delimiter.set) =>
    LET b == Blocks
    IN  /\ Len(b) <= Cardinality(DelimSet)
        /\ pc = "done" => Len(b) = Cardinality(DelimSet)
        /\ \A k \in 1..Len(b) : b[k].code = CodeOf(Segment(k))
        /\ warnings = 0

\* Two code labels, of two lines and of one, with a minimum label height
\* set.
C31_Witness ==
  /\ pc = "done"
  /\ input_type = "code" /\ delimiter.set
  /\ min_label_lines > 0
  /\ Len(Blocks) = 2
  /\ Len(Blocks[1].code) = 2
  /\ Len(Blocks[2].code) = 1
  /\ Blocks[2].code[1] # Blocks[1].code[2]

(***************************************************************************)
(* Fatal conditions of make_labels.                                        *)
(***************************************************************************)
\* C32: early detection of fatal conditions. A run of make_labels that is
\* ended by a fatal condition (an exception that is not an I/O error) has
\* written nothing to the document, also when the CSV input has no rows.
C32_EarlyDetection ==
  pc = "crashed" => output = <<>>

---------------------------------------------------------------------------
\* Bounds of the font scale

\* The number of lines a text block shows (padding included).
NumShown(b) == Len(ShowTexts(b))

\* The written size never grows with the line count.
FontNonIncreasing ==
  LET b == Blocks
  IN  \A j, k \in 1..Len(b) :
        NumShown(b[j]) <= NumShown(b[k])
          => WrittenFontSize(b[j]) >= WrittenFontSize(b[k])

\* The written size of a label of more than four lines is below font_size.
FontBelowBaseWhenLong ==
  LET b == Blocks
  IN  \A k \in 1..Len(b) :
        NumShown(b[k]) > 4 => WrittenFontSize(b[k]) < spec.font_size

C33_WitnessLong ==
  /\ input_type # "code"
  /\ \E k \in 1..Len(Blocks) :
       /\ NumShown(Blocks[k]) > 4
       /\ WrittenFontSize(Blocks[k]) < spec.font_size

---------------------------------------------------------------------------
\* Absorbing the same spec twice

\* Absorbing o into self again changes neither of the two objects.
AbsorbAgainSame(self, o) ==
  Absorb(self, o) = [self |-> self, other |-> o]

\* C34: absorb is idempotent. After a call of absorb, a second call with
\* the same other spec leaves all eleven fields of self (and the other
\* spec) as the first call left them, also where the other spec's
\* first_label, font_name or font_size is the library default.
C34_AbsorbIdempotent ==
  [][ /\ (mpc = "absorb_param" /\ opts.param_file.present) =>
           /\ other' = ParseParamFile(opts.param_file)
           /\ AbsorbAgainSame(spec', other')
      /\ (mpc = "absorb_type" /\ opts.type \in KnownTypes) =>
           /\ other' = SheetspecForType(opts.type)
           /\ AbsorbAgainSame(spec', other') ]_vars

\* After absorbing avery5167 into a spec with unset geometry and default
\* fonts: the geometry and the font size 7 were taken, and the type's
\* first_label and font_name are the library defaults.
C34_Witness ==
  /\ mpc = "check_modes"
  /\ opts.type = "avery5167"
  /\ ~opts.param_file.present
  /\ opts.font_size = NoneVal
  /\ other = SheetspecForType("avery5167")
  /\ other.font_name = default_font_name
  /\ other.first_label = default_first_label
  /\ spec.font_size = 7
  /\ spec.first_label = default_first_label
  /\ spec.font_name = default_font_name
  /\ spec.label_width = 12600

====
